---------------------------- MODULE Spec2Model ----------------------------
(***************************************************************************)
(* The operation submission gateway of src/actix/api: the collection       *)
(* handlers of collections_api.rs and the snapshot handlers of             *)
(* snapshot_api.rs, as a state machine over a bounded number of requests.  *)
(*                                                                         *)
(* Each request runs one handler.  A handler is split at its await points: *)
(* the action named after the handler runs it from request receipt to its  *)
(* first await (or to its return), and the Executor's completion of the    *)
(* awaited call resumes it.  The Executor (Dispatcher, TableOfContent and  *)
(* the helpers of crate::common::collections and crate::actix::helpers)    *)
(* is not part of src/ and is modelled from the specification.             *)
(***************************************************************************)
EXTENDS Integers, Sequences, FiniteSets, TLC

\* ------------------------------------------------------------- bounds
\* Number of request slots (requests received in one behaviour).
NReq == 2

Requests == 1..NReq

\* ------------------------------------------------------ option values
\* Option<T>: None is the empty tuple, Some(v) the one-element tuple.
None == <<>>

Some(v) == <<v>>

UnwrapOr(o, d) == IF o = None THEN d ELSE o[1]

\* --------------------------------------------------- request inputs
\* ?timeout= values: absent, or a number of seconds (0: the scenario value).
TimeoutSecs == {0}

TimeoutParams == {None} \cup {Some(n) : n \in TimeoutSecs}

\* ?wait= values: absent, true, false.
WaitParams == {None, Some(TRUE), Some(FALSE)}

\* Collections the Executor knows, and the names requests may carry.
KnownCollections == {"foo"}

CollectionNames == {"foo", "bar"}

\* Snapshot names requests may carry.
SnapshotNames == {"s1", "s2"}

CollectionMetaKinds ==
    {"CreateCollection", "UpdateCollection", "DeleteCollection", "ChangeAliases"}

MetaKinds == CollectionMetaKinds \cup {"ClusterReconfigure"}

\* ------------------------------------------------- results and errors
\* StorageError / actix error kinds of the error taxonomy.
ErrorKinds ==
    {"NotFound", "Conflict", "Timeout", "BadInput", "ExecutorFailure", "IOFailure"}

\* Errors an Executor call can end with.
ExecutorErrors == {"NotFound", "Conflict", "ExecutorFailure"}

\* A Result / ExecutionResult value.  val is a set of tuples (names, paths);
\* src tells where the value was produced: by the Executor or locally in the
\* gateway.
Success(v, src) == [kind |-> "Success", val |-> v, err |-> "-", msg |-> "-", src |-> src]

Failure(e, m, src) == [kind |-> "Failure", val |-> {}, err |-> e, msg |-> m, src |-> src]

Accepted == [kind |-> "Accepted", val |-> {}, err |-> "-", msg |-> "-", src |-> "local"]

\* The message the Executor attaches to an error of kind e.
ExecutorMessage(e) == "executor: " \o e

ExecutorFailed(e) == Failure(e, ExecutorMessage(e), "executor")

\* Status code selected by the error kind: 404, 409 and 500 for the errors of
\* the Executor.
StatusCode(e) ==
    CASE e = "NotFound" -> "404"
      [] e = "Conflict" -> "409"
      [] e = "ExecutorFailure" -> "500"
      [] e = "BadInput" -> "400"
      [] e = "Timeout" -> "408"
      [] OTHER -> "500"

\* The wire response of a request; kind "none" while nothing was sent.
NoResponse ==
    [kind |-> "none", val |-> {}, err |-> "-", msg |-> "-", src |-> "-",
     status |-> "-", timed |-> FALSE]

\* process_response(response, timing): 200 with the payload, or the status the
\* error kind selects with the message; always with the timing field.
process_response(result) ==
    [kind |-> result.kind, val |-> result.val, err |-> result.err,
     msg |-> result.msg, src |-> result.src,
     status |-> IF result.kind = "Failure" THEN StatusCode(result.err) ELSE "200",
     timed |-> TRUE]

\* --------------------------------------------------------------- state
VARIABLES
    req,            \* per request slot: inputs, handler position, task, response
    snapshots,      \* Executor: snapshot names of each known collection
    fullSnapshots,  \* Executor: names of the full-node snapshots
    files,          \* paths persisted below the snapshots directory
    uuids,          \* number of identifiers Uuid::new_v4 has generated
    created         \* number of snapshots the Executor has created

vars == <<req, snapshots, fullSnapshots, files, uuids, created>>

executorState == <<snapshots, fullSnapshots, files, uuids, created>>

\* A spawned task or submitted Executor call, and the result it ended with.
NoResult == [kind |-> "none", val |-> {}, err |-> "-", msg |-> "-", src |-> "-"]

NoTask == [st |-> "none", res |-> NoResult]

Running == [st |-> "running", res |-> NoResult]

Finished(result) == [st |-> "finished", res |-> result]

Panicked == [st |-> "panicked", res |-> NoResult]

\* A request slot before its request arrives.
IdleRequest ==
    [kind |-> "-", coll |-> "-", snap |-> "-",
     wait |-> None, timeout |-> None,
     file |-> None,         \* the file name of an uploaded snapshot
     prio |-> None,         \* the ?priority= of an upload, the priority of a recover
     io |-> "-",            \* how persisting the uploaded file went
     recovers |-> <<>>,     \* the do_recover_from_snapshot calls made, in order
     pc |-> "idle",         \* idle, awaiting, done, aborted
     tmo |-> None,          \* the Option<Duration> handed to the Executor call
     blocking |-> TRUE,     \* the wait flag the handler resolved
     task |-> NoTask,
     calls |-> 0,           \* Executor calls started for this request
     resp |-> NoResponse,
     nresp |-> 0,           \* responses sent for this request
     expired |-> FALSE,     \* the request's timeout elapsed while the call ran
     after |-> {},          \* requests whose task had ended when the list task ran
     log |-> <<>>]          \* handler events, in order

\* Requests arrive in slot order.
CanReceive(r) ==
    /\ req[r].pc = "idle"
    /\ \A q \in Requests : q < r => req[q].pc # "idle"

TaskEnded(rq) == rq.task.st \in {"finished", "panicked"}

\* The request record right after receipt.
Received(r, kind, coll, snap, wait, timeout) ==
    [IdleRequest EXCEPT
        !.kind = kind, !.coll = coll, !.snap = snap,
        !.wait = wait, !.timeout = timeout,
        !.log = <<"received">>]

\* The handler returns `response` to the caller.
Respond(rq, response) ==
    [rq EXCEPT !.pc = "done", !.resp = response, !.nresp = @ + 1,
               !.log = Append(@, "respond")]

\* ------------------------------------------- collection-meta handlers
\* Duration::from_secs
Duration_from_secs(n) == [secs |-> n, nanos |-> 0]

WaitTimeout_timeout_from_millis(timeout) ==
    IF timeout = None THEN None
    ELSE Some([secs |-> timeout[1] \div 1000, nanos |-> (timeout[1] % 1000) * 1000000])

\* WaitTimeout::timeout
WaitTimeout_timeout(timeout) ==
    IF timeout = None THEN None ELSE Some(Duration_from_secs(timeout[1]))

\* Dispatcher::submit_collection_meta_op up to its await: the operation is
\* handed to the Executor, and the caller waits for it, bounded by wait_timeout.
submit_collection_meta_op(rq, wait_timeout) ==
    [rq EXCEPT !.pc = "awaiting", !.tmo = wait_timeout, !.task = Running,
               !.calls = @ + 1, !.log = Append(@, "dispatch")]

\* do_update_collection_cluster: the same shape as submit_collection_meta_op.
do_update_collection_cluster(rq, wait_timeout) ==
    [rq EXCEPT !.pc = "awaiting", !.tmo = wait_timeout, !.task = Running,
               !.calls = @ + 1, !.log = Append(@, "dispatch")]

create_collection_ignoring_timeout(r, name, timeout) ==
    /\ CanReceive(r)
    /\ req' = [req EXCEPT ![r] =
            submit_collection_meta_op(
                Received(r, "CreateCollection", name, "-", None, timeout), None)]
    /\ UNCHANGED executorState

create_collection_skipping_submit(r, name, timeout) ==
    /\ CanReceive(r)
    /\ req' = [req EXCEPT ![r] =
            IF timeout = Some(0)
            THEN Respond(Received(r, "CreateCollection", name, "-", None, timeout),
                         process_response(Failure("Timeout", "timeout", "local")))
            ELSE submit_collection_meta_op(
                    Received(r, "CreateCollection", name, "-", None, timeout),
                    WaitTimeout_timeout(timeout))]
    /\ UNCHANGED executorState

create_collection_defaulting_timeout(r, name, timeout) ==
    /\ CanReceive(r)
    /\ req' = [req EXCEPT ![r] =
            submit_collection_meta_op(
                Received(r, "CreateCollection", name, "-", None, timeout),
                Some(Duration_from_secs(UnwrapOr(timeout, 0))))]
    /\ UNCHANGED executorState

\* PUT /collections/{name}
create_collection(r, name, timeout) ==
    /\ CanReceive(r)
    /\ req' = [req EXCEPT ![r] =
            submit_collection_meta_op(
                Received(r, "CreateCollection", name, "-", None, timeout),
                WaitTimeout_timeout(timeout))]
    /\ UNCHANGED executorState

\* PATCH /collections/{name}
update_collection(r, name, timeout) ==
    /\ CanReceive(r)
    /\ req' = [req EXCEPT ![r] =
            submit_collection_meta_op(
                Received(r, "UpdateCollection", name, "-", None, timeout),
                WaitTimeout_timeout(timeout))]
    /\ UNCHANGED executorState

\* DELETE /collections/{name}
delete_collection(r, name, timeout) ==
    /\ CanReceive(r)
    /\ req' = [req EXCEPT ![r] =
            submit_collection_meta_op(
                Received(r, "DeleteCollection", name, "-", None, timeout),
                WaitTimeout_timeout(timeout))]
    /\ UNCHANGED executorState

\* POST /collections/aliases
update_aliases(r, timeout) ==
    /\ CanReceive(r)
    /\ req' = [req EXCEPT ![r] =
            submit_collection_meta_op(
                Received(r, "ChangeAliases", "-", "-", None, timeout),
                WaitTimeout_timeout(timeout))]
    /\ UNCHANGED executorState

update_collection_cluster_resubmitting(r, name, timeout) ==
    /\ CanReceive(r)
    /\ req' = [req EXCEPT ![r] =
            do_update_collection_cluster(
                do_update_collection_cluster(
                    Received(r, "ClusterReconfigure", name, "-", None, timeout),
                    WaitTimeout_timeout(timeout)),
                WaitTimeout_timeout(timeout))]
    /\ UNCHANGED executorState

update_collection_cluster_ignoring_timeout(r, name, timeout) ==
    /\ CanReceive(r)
    /\ req' = [req EXCEPT ![r] =
            do_update_collection_cluster(
                Received(r, "ClusterReconfigure", name, "-", None, timeout), None)]
    /\ UNCHANGED executorState

\* POST /collections/{name}/cluster
update_collection_cluster(r, name, timeout) ==
    /\ CanReceive(r)
    /\ req' = [req EXCEPT ![r] =
            do_update_collection_cluster(
                Received(r, "ClusterReconfigure", name, "-", None, timeout),
                WaitTimeout_timeout(timeout))]
    /\ UNCHANGED executorState

\* The Executor finishes the call of a collection-meta or cluster request
\* with `result`.  A handler still awaiting it resumes and translates the
\* outcome; after a timeout the outcome is discarded for the request.
MetaOpCompletes(r, result) ==
    /\ req[r].kind \in MetaKinds
    /\ req[r].task.st = "running"
    /\ req' = [req EXCEPT ![r] =
            LET done == [@ EXCEPT !.task = Finished(result)]
            IN  IF @.pc = "awaiting"
                THEN Respond(done, process_response(result))
                ELSE done]
    /\ UNCHANGED executorState

\* The timeout of request r elapses while its Executor call is still running.
\* A call that was handed a timeout stops waiting and reports Timeout; the
\* Executor call is left running.
MetaOpTimesOut(r) ==
    /\ req[r].kind \in MetaKinds
    /\ req[r].pc = "awaiting"
    /\ (req[r].timeout # None \/ req[r].tmo # None)
    /\ req[r].task.st = "running"
    /\ req' = [req EXCEPT ![r] =
            LET late == [@ EXCEPT !.expired = TRUE]
            IN  IF @.tmo # None
                THEN Respond(late, process_response(
                        Failure("Timeout", "operation timed out", "local")))
                ELSE late]
    /\ UNCHANGED executorState

\* Outcomes of a collection-meta call: the Executor is a black box.
MetaOutcomes == {Success({}, "executor")} \cup {ExecutorFailed(e) : e \in ExecutorErrors}


\* --------------------------------------------------- snapshot storage
SnapshotKinds ==
    {"ListSnapshots", "CreateSnapshot", "DeleteSnapshot", "UploadSnapshot",
     "RecoverSnapshot", "GetSnapshot", "ListFullSnapshots", "CreateFullSnapshot",
     "GetFullSnapshot", "DeleteFullSnapshot"}

\* Paths below toc.snapshots_path().
SnapshotPath(coll, name) == <<"snapshots", coll, name>>

FullSnapshotPath(name) == <<"snapshots", name>>

\* The files that exist: the snapshots of the Executor and the uploaded files.
\* The relative path "not_found" names none of them.
FileSystem ==
    UNION {{SnapshotPath(c, n) : n \in snapshots[c]} : c \in DOMAIN snapshots}
        \cup {FullSnapshotPath(n) : n \in fullSnapshots}
        \cup files

\* NamedFile::open(path): the file, or the I/O error NotFound.
NamedFile_open(path, fs, src) ==
    IF path \in fs
    THEN Success({path}, src)
    ELSE Failure("IOFailure", "No such file or directory (os error 2)", "local")

\* What actix sends for a handler's Result<NamedFile>: the file, or the error's
\* response (404 for the I/O error NotFound).  No timing field.
actix_respond(result) ==
    [kind |-> result.kind, val |-> result.val, err |-> result.err,
     msg |-> result.msg, src |-> result.src,
     status |-> IF result.kind # "Failure" THEN "200"
                ELSE IF result.err = "IOFailure" THEN "404"
                ELSE StatusCode(result.err),
     timed |-> FALSE]

\* storage_into_actix_error / collection_into_actix_error: the kind and the
\* message are kept.
storage_into_actix_error(result) == result

\* ErrorInternalServerError(e.to_string()) of a JoinError.
ErrorInternalServerError(m) == Failure("ExecutorFailure", m, "local")

\* The handler panics: the request ends without a response.
Abort(rq) == [rq EXCEPT !.pc = "aborted", !.log = Append(@, "abort")]

\* tokio::spawn(task): the task starts running on its own.
Spawn(rq) ==
    [rq EXCEPT !.task = Running, !.calls = @ + 1, !.log = Append(@, "spawn")]

\* ------------------------------------------------- snapshot download
\* The task of do_get_snapshot: get_collection(..).unwrap() and
\* get_snapshot_path(..).unwrap() panic on an error.
get_snapshot_task(coll, snap) ==
    IF coll \notin DOMAIN snapshots THEN Panicked
    ELSE IF snap \notin snapshots[coll] THEN Panicked
    ELSE Finished(Success({SnapshotPath(coll, snap)}, "executor"))

\* The task of do_get_full_snapshot: get_full_snapshot_path, which fails with
\* NotFound or, on a fault of the storage, with an opaque failure.
get_full_snapshot_task(snap, fault) ==
    IF fault THEN Finished(ExecutorFailed("ExecutorFailure"))
    ELSE IF snap \notin fullSnapshots THEN Finished(ExecutorFailed("NotFound"))
    ELSE Finished(Success({FullSnapshotPath(snap)}, "executor"))

do_get_snapshot_awaiting_always(rq, wait) ==
    [Spawn(rq) EXCEPT !.blocking = wait, !.pc = "awaiting", !.log = Append(@, "await")]

do_get_snapshot_spawning_lazily(rq, wait) ==
    IF wait
    THEN [Spawn(rq) EXCEPT !.blocking = wait, !.pc = "awaiting", !.log = Append(@, "await")]
    ELSE Respond([rq EXCEPT !.blocking = wait],
                 actix_respond(NamedFile_open(<<"not_found">>, FileSystem, "local")))

do_get_snapshot_accepting(rq, wait) ==
    IF wait
    THEN [Spawn(rq) EXCEPT !.blocking = wait, !.pc = "awaiting", !.log = Append(@, "await")]
    ELSE Respond([Spawn(rq) EXCEPT !.blocking = wait], process_response(Accepted))

\* do_get_snapshot up to `task.await`, or to its return when wait is false.
do_get_snapshot(rq, wait) ==
    IF wait
    THEN [Spawn(rq) EXCEPT !.blocking = wait, !.pc = "awaiting", !.log = Append(@, "await")]
    ELSE Respond([Spawn(rq) EXCEPT !.blocking = wait],
                 actix_respond(NamedFile_open(<<"not_found">>, FileSystem, "local")))

\* do_get_snapshot from `task.await` on: task.await.unwrap() panics when the
\* task panicked; otherwise the path the task returned is opened.
do_get_snapshot_resume(rq) ==
    IF rq.task.st = "panicked"
    THEN Abort(rq)
    ELSE Respond(rq, actix_respond(
            NamedFile_open(CHOOSE p \in rq.task.res.val : TRUE, FileSystem, "executor")))

do_get_full_snapshot_awaiting_always(rq, wait) ==
    [Spawn(rq) EXCEPT !.blocking = wait, !.pc = "awaiting", !.log = Append(@, "await")]

\* do_get_full_snapshot up to `task.await`, or to its return.
do_get_full_snapshot(rq, wait) ==
    IF wait
    THEN [Spawn(rq) EXCEPT !.blocking = wait, !.pc = "awaiting", !.log = Append(@, "await")]
    ELSE Respond([Spawn(rq) EXCEPT !.blocking = wait],
                 actix_respond(NamedFile_open(<<"not_found">>, FileSystem, "local")))

\* do_get_full_snapshot from `task.await` on.
do_get_full_snapshot_resume(rq) ==
    IF rq.task.st = "panicked"
    THEN Respond(rq, actix_respond(ErrorInternalServerError("task panicked")))
    ELSE IF rq.task.res.kind = "Failure"
    THEN Respond(rq, actix_respond(storage_into_actix_error(rq.task.res)))
    ELSE Respond(rq, actix_respond(
            NamedFile_open(CHOOSE p \in rq.task.res.val : TRUE, FileSystem, "executor")))

\* GET /collections/{name}/snapshots/{snapshot_name}
get_snapshot(r, coll, snap, wait) ==
    /\ CanReceive(r)
    /\ req' = [req EXCEPT ![r] =
            do_get_snapshot(Received(r, "GetSnapshot", coll, snap, wait, None),
                            UnwrapOr(wait, TRUE))]
    /\ UNCHANGED executorState

\* GET /snapshots/{snapshot_name}
get_full_snapshot(r, snap, wait) ==
    /\ CanReceive(r)
    /\ req' = [req EXCEPT ![r] =
            do_get_full_snapshot(Received(r, "GetFullSnapshot", "-", snap, wait, None),
                                 UnwrapOr(wait, TRUE))]
    /\ UNCHANGED executorState

\* The task spawned by do_get_snapshot runs to its end; a handler awaiting it
\* resumes.
GetSnapshotTaskRuns(r) ==
    /\ req[r].kind = "GetSnapshot"
    /\ req[r].task.st = "running"
    /\ req' = [req EXCEPT ![r] =
            LET ended == [@ EXCEPT !.task = get_snapshot_task(req[r].coll, req[r].snap)]
            IN  IF @.pc = "awaiting" THEN do_get_snapshot_resume(ended) ELSE ended]
    /\ UNCHANGED executorState

\* The task spawned by do_get_full_snapshot runs to its end.
GetFullSnapshotTaskRuns(r, fault) ==
    /\ req[r].kind = "GetFullSnapshot"
    /\ req[r].task.st = "running"
    /\ req' = [req EXCEPT ![r] =
            LET ended == [@ EXCEPT !.task = get_full_snapshot_task(req[r].snap, fault)]
            IN  IF @.pc = "awaiting" THEN do_get_full_snapshot_resume(ended) ELSE ended]
    /\ UNCHANGED executorState

\* ------------------------------------ snapshot create, list, delete
\* Executor.snapshot_call: the Executor call is spawned as a task on request
\* arrival; a blocking caller awaits it, a non-blocking caller is told
\* Accepted at once and the task runs on detached.
snapshot_call(rq, wait) ==
    IF wait
    THEN [Spawn(rq) EXCEPT !.blocking = wait, !.pc = "awaiting", !.log = Append(@, "await")]
    ELSE Respond([Spawn(rq) EXCEPT !.blocking = wait], process_response(Accepted))

do_list_snapshots(rq, wait) == snapshot_call(rq, wait)

do_create_snapshot(rq, wait) == snapshot_call(rq, wait)

do_delete_collection_snapshot(rq, wait) == snapshot_call(rq, wait)

do_list_full_snapshots(rq, wait) == snapshot_call(rq, wait)

do_create_full_snapshot(rq, wait) == snapshot_call(rq, wait)

do_delete_full_snapshot(rq, wait) == snapshot_call(rq, wait)

do_recover_from_snapshot(rq, wait) == snapshot_call(rq, wait)

\* The ?wait= default of the snapshot handlers: params.wait.unwrap_or(true).
wait_or_default(wait) == UnwrapOr(wait, TRUE)

list_snapshots_not_waiting(r, coll, wait) ==
    /\ CanReceive(r)
    /\ req' = [req EXCEPT ![r] =
            do_list_snapshots(Received(r, "ListSnapshots", coll, "-", wait, None),
                              UnwrapOr(wait, FALSE))]
    /\ UNCHANGED executorState

\* GET /collections/{name}/snapshots
list_snapshots(r, coll, wait) ==
    /\ CanReceive(r)
    /\ req' = [req EXCEPT ![r] =
            do_list_snapshots(Received(r, "ListSnapshots", coll, "-", wait, None),
                              wait_or_default(wait))]
    /\ UNCHANGED executorState

\* POST /collections/{name}/snapshots
create_snapshot(r, coll, wait) ==
    /\ CanReceive(r)
    /\ req' = [req EXCEPT ![r] =
            do_create_snapshot(Received(r, "CreateSnapshot", coll, "-", wait, None),
                               wait_or_default(wait))]
    /\ UNCHANGED executorState

\* DELETE /collections/{name}/snapshots/{snapshot_name}
delete_collection_snapshot(r, coll, snap, wait) ==
    /\ CanReceive(r)
    /\ req' = [req EXCEPT ![r] =
            do_delete_collection_snapshot(
                Received(r, "DeleteSnapshot", coll, snap, wait, None),
                wait_or_default(wait))]
    /\ UNCHANGED executorState

\* GET /snapshots
list_full_snapshots(r, wait) ==
    /\ CanReceive(r)
    /\ req' = [req EXCEPT ![r] =
            do_list_full_snapshots(
                Received(r, "ListFullSnapshots", "-", "-", wait, None),
                wait_or_default(wait))]
    /\ UNCHANGED executorState

\* POST /snapshots
create_full_snapshot(r, wait) ==
    /\ CanReceive(r)
    /\ req' = [req EXCEPT ![r] =
            do_create_full_snapshot(
                Received(r, "CreateFullSnapshot", "-", "-", wait, None),
                wait_or_default(wait))]
    /\ UNCHANGED executorState

\* DELETE /snapshots/{snapshot_name}
delete_full_snapshot(r, snap, wait) ==
    /\ CanReceive(r)
    /\ req' = [req EXCEPT ![r] =
            do_delete_full_snapshot(
                Received(r, "DeleteFullSnapshot", "-", snap, wait, None),
                wait_or_default(wait))]
    /\ UNCHANGED executorState

\* The name the Executor gives the k-th snapshot it creates.
NewSnapshotName(k) == "snap-" \o ToString(k)

\* The task of request r ends with `result`; a handler awaiting it resumes and
\* returns the outcome.
TaskEnds(r, result) ==
    req' = [req EXCEPT ![r] =
        LET ended == [@ EXCEPT !.task = Finished(result)]
        IN  IF @.pc = "awaiting"
            THEN Respond(ended, process_response(result))
            ELSE ended]

\* A snapshot task fails inside the Executor (an opaque failure).
SnapshotTaskFails(r) ==
    /\ req[r].kind \in {"CreateSnapshot", "CreateFullSnapshot", "RecoverSnapshot",
                        "UploadSnapshot"}
    /\ req[r].task.st = "running"
    /\ TaskEnds(r, ExecutorFailed("ExecutorFailure"))
    /\ UNCHANGED executorState

ListSnapshotsTaskRuns(r) ==
    /\ req[r].kind = "ListSnapshots"
    /\ req[r].task.st = "running"
    /\ req' = [req EXCEPT ![r] =
        LET result == IF req[r].coll \in DOMAIN snapshots
                      THEN Success({<<n>> : n \in snapshots[req[r].coll]}, "executor")
                      ELSE ExecutorFailed("NotFound")
            ended == [@ EXCEPT !.task = Finished(result),
                               !.after = {q \in Requests : TaskEnded(req[q])}]
        IN  IF @.pc = "awaiting"
            THEN Respond(ended, process_response(result))
            ELSE ended]
    /\ UNCHANGED executorState

CreateSnapshotTaskRuns(r) ==
    /\ req[r].kind = "CreateSnapshot"
    /\ req[r].task.st = "running"
    /\ IF req[r].coll \in DOMAIN snapshots
       THEN /\ TaskEnds(r, Success({<<NewSnapshotName(created + 1)>>}, "executor"))
            /\ snapshots' = [snapshots EXCEPT ![req[r].coll] =
                                @ \cup {NewSnapshotName(created + 1)}]
            /\ created' = created + 1
       ELSE /\ TaskEnds(r, ExecutorFailed("NotFound"))
            /\ UNCHANGED <<snapshots, created>>
    /\ UNCHANGED <<fullSnapshots, files, uuids>>

DeleteSnapshotTaskRuns(r) ==
    /\ req[r].kind = "DeleteSnapshot"
    /\ req[r].task.st = "running"
    /\ IF req[r].coll \in DOMAIN snapshots /\ req[r].snap \in snapshots[req[r].coll]
       THEN /\ TaskEnds(r, Success({}, "executor"))
            /\ snapshots' = [snapshots EXCEPT ![req[r].coll] = @ \ {req[r].snap}]
       ELSE /\ TaskEnds(r, ExecutorFailed("NotFound"))
            /\ UNCHANGED snapshots
    /\ UNCHANGED <<fullSnapshots, files, uuids, created>>

ListFullSnapshotsTaskRuns(r) ==
    /\ req[r].kind = "ListFullSnapshots"
    /\ req[r].task.st = "running"
    /\ TaskEnds(r, Success({<<n>> : n \in fullSnapshots}, "executor"))
    /\ UNCHANGED executorState

CreateFullSnapshotTaskRuns(r) ==
    /\ req[r].kind = "CreateFullSnapshot"
    /\ req[r].task.st = "running"
    /\ TaskEnds(r, Success({<<NewSnapshotName(created + 1)>>}, "executor"))
    /\ fullSnapshots' = fullSnapshots \cup {NewSnapshotName(created + 1)}
    /\ created' = created + 1
    /\ UNCHANGED <<snapshots, files, uuids>>

DeleteFullSnapshotTaskRuns(r) ==
    /\ req[r].kind = "DeleteFullSnapshot"
    /\ req[r].task.st = "running"
    /\ IF req[r].snap \in fullSnapshots
       THEN /\ TaskEnds(r, Success({}, "executor"))
            /\ fullSnapshots' = fullSnapshots \ {req[r].snap}
       ELSE /\ TaskEnds(r, ExecutorFailed("NotFound"))
            /\ UNCHANGED fullSnapshots
    /\ UNCHANGED <<snapshots, files, uuids, created>>

\* ------------------------------------------------ upload and recover
\* SnapshotPriority values a request may carry.
Priorities == {None, Some("replica")}

\* ?wait= values of an upload: absent (the default applies) or false.
UploadWaitParams == {None, Some(FALSE)}

\* File names an upload may carry (the filename of the Content-Disposition
\* header, as sent), as path components: none, or a plain name.
FileNames == {None, Some(<<"up.snapshot">>)}

\* File names that are paths: an absolute one, and one that climbs out of the
\* directory it is joined to.
PathFileNames ==
    {Some(<<"/", "tmp", "up.snapshot">>), Some(<<"..", "foo", "up.snapshot">>)}

\* How persisting an uploaded file can go: it works, or persist fails, or
\* canonicalize fails, or the path does not convert to a URL.
PersistOutcomes == {"ok", "persist", "canonicalize", "url"}

\* Uuid::new_v4().to_string() of the k-th identifier generated.
UuidString(k) == "uuid-" \o ToString(k)

\* Url::from_file_path
Url_from_file_path(path) == <<"file:">> \o path

\* Path::join: an absolute path replaces the path it is joined to.
Path_join(base, name) == IF name[1] = "/" THEN name ELSE base \o name

\* Path::canonicalize on the components: "." is dropped and ".." removes the
\* component before it (the root has no parent).
RECURSIVE Resolve(_, _)
Resolve(done, rest) ==
    IF rest = <<>> THEN done
    ELSE IF Head(rest) = "." THEN Resolve(done, Tail(rest))
    ELSE IF Head(rest) = ".."
    THEN Resolve(IF Len(done) = 0 \/ done = <<"/">> THEN done
                 ELSE SubSeq(done, 1, Len(done) - 1),
                 Tail(rest))
    ELSE Resolve(Append(done, Head(rest)), Tail(rest))

canonicalize(path) == Resolve(<<>>, path)

\* do_save_uploaded_snapshot: the file name (the identifier is generated
\* whether or not a name was supplied), the path below the directory of the
\* collection, persist, canonicalize and the conversion to a URL.  Gives the
\* result and the files that exist afterwards.
do_save_uploaded_snapshot(coll, file_name, io) ==
    LET filename == UnwrapOr(file_name, <<UuidString(uuids + 1)>>)
        path == Path_join(<<"snapshots", coll>>, filename)
        absolute_path == canonicalize(path)
    IN  [files |-> IF io = "persist" THEN files ELSE files \cup {absolute_path},
         result |->
            CASE io = "persist" ->
                    Failure("IOFailure", "persist failed", "local")
              [] io = "canonicalize" ->
                    Failure("IOFailure", "canonicalize failed", "local")
              [] io = "url" ->
                    Failure("ExecutorFailure", "Failed to convert path to URL", "local")
              [] OTHER -> Success({Url_from_file_path(absolute_path)}, "local")]

\* One do_recover_from_snapshot invocation: SnapshotRecover and wait.
RecoverCall(location, priority, wait) ==
    [location |-> location, priority |-> priority, wait |-> wait]

upload_snapshot_recovering_anyway(r, coll, file_name, wait, priority, io) ==
    /\ CanReceive(r)
    /\ LET rq == [Received(r, "UploadSnapshot", coll, "-", wait, None)
                    EXCEPT !.file = file_name, !.io = io, !.prio = priority,
                           !.blocking = wait_or_default(wait)]
           saved == do_save_uploaded_snapshot(coll, file_name, io)
       IN  /\ files' = saved.files
           /\ uuids' = uuids + 1
           /\ req' = [req EXCEPT ![r] =
                    do_recover_from_snapshot(
                        [rq EXCEPT !.recovers = Append(@,
                            RecoverCall(saved.result.val, priority, wait_or_default(wait)))],
                        wait_or_default(wait))]
    /\ UNCHANGED <<snapshots, fullSnapshots, created>>

upload_snapshot_dropping_priority(r, coll, file_name, wait, priority, io) ==
    /\ CanReceive(r)
    /\ LET rq == [Received(r, "UploadSnapshot", coll, "-", wait, None)
                    EXCEPT !.file = file_name, !.io = io, !.prio = priority,
                           !.blocking = wait_or_default(wait)]
           saved == do_save_uploaded_snapshot(coll, file_name, io)
       IN  /\ files' = saved.files
           /\ uuids' = uuids + 1
           /\ req' = [req EXCEPT ![r] =
                    IF saved.result.kind = "Failure"
                    THEN Respond(rq, process_response(saved.result))
                    ELSE do_recover_from_snapshot(
                            [rq EXCEPT !.recovers = Append(@,
                                RecoverCall(saved.result.val, None, wait_or_default(wait)))],
                            wait_or_default(wait))]
    /\ UNCHANGED <<snapshots, fullSnapshots, created>>

upload_snapshot_persisting_later(r, coll, file_name, wait, priority, io) ==
    /\ CanReceive(r)
    /\ LET rq == [Received(r, "UploadSnapshot", coll, "-", wait, None)
                    EXCEPT !.file = file_name, !.io = io, !.prio = priority,
                           !.blocking = wait_or_default(wait)]
           saved == do_save_uploaded_snapshot(coll, file_name, io)
       IN  /\ files' = IF wait_or_default(wait) THEN saved.files ELSE files
           /\ uuids' = uuids + 1
           /\ req' = [req EXCEPT ![r] =
                    IF saved.result.kind = "Failure"
                    THEN Respond(rq, process_response(saved.result))
                    ELSE do_recover_from_snapshot(
                            [rq EXCEPT !.recovers = Append(@,
                                RecoverCall(saved.result.val, priority, wait_or_default(wait)))],
                            wait_or_default(wait))]
    /\ UNCHANGED <<snapshots, fullSnapshots, created>>

\* POST /collections/{name}/snapshots/upload
upload_snapshot(r, coll, file_name, wait, priority, io) ==
    /\ CanReceive(r)
    /\ LET rq == [Received(r, "UploadSnapshot", coll, "-", wait, None)
                    EXCEPT !.file = file_name, !.io = io, !.prio = priority,
                           !.blocking = wait_or_default(wait)]
           saved == do_save_uploaded_snapshot(coll, file_name, io)
       IN  /\ files' = saved.files
           /\ uuids' = uuids + 1
           /\ req' = [req EXCEPT ![r] =
                    IF saved.result.kind = "Failure"
                    THEN Respond(rq, process_response(saved.result))
                    ELSE do_recover_from_snapshot(
                            [rq EXCEPT !.recovers = Append(@,
                                RecoverCall(saved.result.val, priority, wait_or_default(wait)))],
                            wait_or_default(wait))]
    /\ UNCHANGED <<snapshots, fullSnapshots, created>>

\* Locations a recover request may name: a snapshot that exists, one that
\* does not.
Locations ==
    {{Url_from_file_path(SnapshotPath("foo", "s1"))},
     {Url_from_file_path(SnapshotPath("foo", "s2"))}}

\* PUT /collections/{name}/snapshots/recover
recover_from_snapshot(r, coll, location, wait, priority) ==
    /\ CanReceive(r)
    /\ req' = [req EXCEPT ![r] =
            do_recover_from_snapshot(
                [Received(r, "RecoverSnapshot", coll, "-", wait, None)
                    EXCEPT !.prio = priority, !.recovers = Append(@,
                        RecoverCall(location, priority, wait_or_default(wait)))],
                wait_or_default(wait))]
    /\ UNCHANGED executorState

\* The recover task runs: the snapshot at the location is recovered into the
\* collection, when the location names a file that exists.
RecoverTaskRuns(r) ==
    /\ req[r].kind \in {"RecoverSnapshot", "UploadSnapshot"}
    /\ req[r].task.st = "running"
    /\ TaskEnds(r,
            IF \A u \in req[r].recovers[1].location : Tail(u) \in FileSystem
            THEN Success({}, "executor")
            ELSE ExecutorFailed("NotFound"))
    /\ UNCHANGED executorState

\* ------------------------------------------------------ specifications
Init ==
    /\ req = [r \in Requests |-> IdleRequest]
    /\ snapshots = [c \in KnownCollections |-> {"s1"}]
    /\ fullSnapshots = {"s1"}
    /\ files = {}
    /\ uuids = 0
    /\ created = 0

NextMeta ==
    \E r \in Requests :
        \/ \E name \in KnownCollections, timeout \in TimeoutParams :
            \/ create_collection(r, name, timeout)
            \/ update_collection(r, name, timeout)
            \/ delete_collection(r, name, timeout)
            \/ update_collection_cluster(r, name, timeout)
        \/ \E timeout \in TimeoutParams : update_aliases(r, timeout)
        \/ \E result \in MetaOutcomes : MetaOpCompletes(r, result)
        \/ MetaOpTimesOut(r)

SpecMeta == Init /\ [][NextMeta]_vars

NextDownload ==
    \E r \in Requests :
        \/ \E coll \in CollectionNames, snap \in SnapshotNames, wait \in WaitParams :
            get_snapshot(r, coll, snap, wait)
        \/ \E snap \in SnapshotNames, wait \in WaitParams :
            get_full_snapshot(r, snap, wait)
        \/ GetSnapshotTaskRuns(r)
        \/ \E fault \in BOOLEAN : GetFullSnapshotTaskRuns(r, fault)

SpecDownload == Init /\ [][NextDownload]_vars

NextSnapshots ==
    \E r \in Requests :
        \/ \E coll \in CollectionNames, wait \in WaitParams :
            \/ list_snapshots(r, coll, wait)
            \/ create_snapshot(r, coll, wait)
            \/ \E snap \in SnapshotNames : delete_collection_snapshot(r, coll, snap, wait)
        \/ ListSnapshotsTaskRuns(r)
        \/ CreateSnapshotTaskRuns(r)
        \/ DeleteSnapshotTaskRuns(r)
        \/ SnapshotTaskFails(r)

SpecSnapshots == Init /\ [][NextSnapshots]_vars

NextFullSnapshots ==
    \E r \in Requests :
        \/ \E wait \in WaitParams :
            \/ list_full_snapshots(r, wait)
            \/ create_full_snapshot(r, wait)
            \/ \E snap \in SnapshotNames : delete_full_snapshot(r, snap, wait)
        \/ ListFullSnapshotsTaskRuns(r)
        \/ CreateFullSnapshotTaskRuns(r)
        \/ DeleteFullSnapshotTaskRuns(r)
        \/ SnapshotTaskFails(r)

SpecFullSnapshots == Init /\ [][NextFullSnapshots]_vars

NextUpload ==
    \E r \in Requests :
        \/ \E coll \in KnownCollections, file_name \in FileNames,
              wait \in UploadWaitParams, priority \in Priorities,
              io \in PersistOutcomes :
            upload_snapshot(r, coll, file_name, wait, priority, io)
        \/ RecoverTaskRuns(r)
        \/ SnapshotTaskFails(r)

SpecUpload == Init /\ [][NextUpload]_vars

\* Uploads under every kind of file name: none, a plain name, an absolute
\* path and a path that climbs out of the directory of the collection.
NextUploadNames ==
    \E r \in Requests :
        \/ \E coll \in CollectionNames, file_name \in FileNames \cup PathFileNames,
              wait \in UploadWaitParams, io \in {"ok", "persist"} :
            upload_snapshot(r, coll, file_name, wait, None, io)
        \/ RecoverTaskRuns(r)
        \/ SnapshotTaskFails(r)

SpecUploadNames == Init /\ [][NextUploadNames]_vars

\* Every handler that starts an Executor call, on the known collection and
\* the existing snapshot: waiting (wait absent) or not, and for collection
\* creation and the cluster request with a timeout or without; the Executor
\* ends a collection-meta call with success or Conflict.
CallWaitParams == {None, Some(FALSE)}

NextCalls ==
    \E r \in Requests :
        \/ \E timeout \in TimeoutParams :
            \/ create_collection(r, "foo", timeout)
            \/ update_collection_cluster(r, "foo", timeout)
        \/ update_collection(r, "foo", None)
        \/ delete_collection(r, "foo", None)
        \/ update_aliases(r, None)
        \/ \E wait \in CallWaitParams :
            \/ list_snapshots(r, "foo", wait)
            \/ create_snapshot(r, "foo", wait)
            \/ delete_collection_snapshot(r, "foo", "s1", wait)
            \/ get_snapshot(r, "foo", "s1", wait)
            \/ list_full_snapshots(r, wait)
            \/ create_full_snapshot(r, wait)
            \/ delete_full_snapshot(r, "s1", wait)
            \/ get_full_snapshot(r, "s1", wait)
            \/ \E io \in {"ok", "persist"} :
                upload_snapshot(r, "foo", None, wait, None, io)
            \/ recover_from_snapshot(r, "foo",
                    {Url_from_file_path(SnapshotPath("foo", "s1"))}, wait, None)
        \/ \E result \in {Success({}, "executor"), ExecutorFailed("Conflict")} :
            MetaOpCompletes(r, result)
        \/ MetaOpTimesOut(r)
        \/ GetSnapshotTaskRuns(r)
        \/ GetFullSnapshotTaskRuns(r, FALSE)
        \/ ListSnapshotsTaskRuns(r)
        \/ CreateSnapshotTaskRuns(r)
        \/ DeleteSnapshotTaskRuns(r)
        \/ ListFullSnapshotsTaskRuns(r)
        \/ CreateFullSnapshotTaskRuns(r)
        \/ DeleteFullSnapshotTaskRuns(r)
        \/ RecoverTaskRuns(r)
        \/ SnapshotTaskFails(r)

SpecCalls == Init /\ [][NextCalls]_vars

NextRecover ==
    \E r \in Requests :
        \/ \E coll \in CollectionNames, location \in Locations, wait \in WaitParams,
              priority \in Priorities :
            recover_from_snapshot(r, coll, location, wait, priority)
        \/ RecoverTaskRuns(r)
        \/ SnapshotTaskFails(r)

SpecRecover == Init /\ [][NextRecover]_vars

Next ==
    \/ NextMeta
    \/ NextDownload
    \/ NextSnapshots
    \/ NextFullSnapshots
    \/ NextUpload
    \/ NextUploadNames
    \/ NextRecover

Spec == Init /\ [][Next]_vars

\* Snapshot requests that do not wait: every snapshot handler with wait=false,
\* and the tasks they leave behind.
NextDetached ==
    \E r \in Requests :
        \/ \E coll \in CollectionNames, snap \in SnapshotNames :
            \/ get_snapshot(r, coll, snap, Some(FALSE))
            \/ delete_collection_snapshot(r, coll, snap, Some(FALSE))
        \/ \E snap \in SnapshotNames :
            \/ get_full_snapshot(r, snap, Some(FALSE))
            \/ delete_full_snapshot(r, snap, Some(FALSE))
        \/ \E coll \in CollectionNames :
            \/ list_snapshots(r, coll, Some(FALSE))
            \/ create_snapshot(r, coll, Some(FALSE))
        \/ list_full_snapshots(r, Some(FALSE))
        \/ create_full_snapshot(r, Some(FALSE))
        \/ \E io \in PersistOutcomes :
            upload_snapshot(r, "foo", None, Some(FALSE), None, io)
        \/ \E location \in Locations :
            recover_from_snapshot(r, "foo", location, Some(FALSE), None)
        \/ GetSnapshotTaskRuns(r)
        \/ \E fault \in BOOLEAN : GetFullSnapshotTaskRuns(r, fault)
        \/ ListSnapshotsTaskRuns(r)
        \/ CreateSnapshotTaskRuns(r)
        \/ DeleteSnapshotTaskRuns(r)
        \/ ListFullSnapshotsTaskRuns(r)
        \/ CreateFullSnapshotTaskRuns(r)
        \/ DeleteFullSnapshotTaskRuns(r)
        \/ RecoverTaskRuns(r)
        \/ SnapshotTaskFails(r)

SpecDetached == Init /\ [][NextDetached]_vars

\* The timeout race of the collection-meta path, with an Executor that
\* finishes every call it was handed.
NextMetaWait ==
    \E r \in Requests :
        \/ \E name \in KnownCollections, timeout \in TimeoutParams :
            \/ create_collection(r, name, timeout)
            \/ delete_collection(r, name, timeout)
        \/ \E result \in MetaOutcomes : MetaOpCompletes(r, result)
        \/ MetaOpTimesOut(r)

FairSpecMetaWait ==
    /\ Init
    /\ [][NextMetaWait]_vars
    /\ \A r \in Requests : WF_vars(\E result \in MetaOutcomes : MetaOpCompletes(r, result))

\* ?timeout= values of the resolver: absent, zero, one second, and the ten
\* seconds of the test timeout_is_deserialized.
ResolverTimeoutParams == {None, Some(0), Some(1), Some(10)}

\* Request receipt: every handler with a timeout or a wait parameter, from
\* the receipt of its request to its first await, for every value of the
\* parameter.
NextResolver ==
    \E r \in Requests :
        \/ \E name \in KnownCollections, timeout \in ResolverTimeoutParams :
            \/ create_collection(r, name, timeout)
            \/ update_collection(r, name, timeout)
            \/ delete_collection(r, name, timeout)
            \/ update_collection_cluster(r, name, timeout)
        \/ \E timeout \in ResolverTimeoutParams : update_aliases(r, timeout)
        \/ \E wait \in WaitParams :
            \/ list_snapshots(r, "foo", wait)
            \/ create_snapshot(r, "foo", wait)
            \/ delete_collection_snapshot(r, "foo", "s1", wait)
            \/ get_snapshot(r, "foo", "s1", wait)
            \/ list_full_snapshots(r, wait)
            \/ create_full_snapshot(r, wait)
            \/ delete_full_snapshot(r, "s1", wait)
            \/ get_full_snapshot(r, "s1", wait)
            \/ \E io \in {"ok", "persist"} :
                upload_snapshot(r, "foo", None, wait, None, io)
            \/ \E location \in Locations :
                recover_from_snapshot(r, "foo", location, wait, None)

SpecResolver == Init /\ [][NextResolver]_vars

\* The life of a submitted operation: the collection-meta path with its
\* timeout race and the download path with its spawned task, with an Executor
\* that finishes every call and a runtime that runs every spawned task.
NextLifecycle == NextMetaWait \/ NextDownload

FairSpecLifecycle ==
    /\ Init
    /\ [][NextLifecycle]_vars
    /\ \A r \in Requests :
        /\ WF_vars(\E result \in MetaOutcomes : MetaOpCompletes(r, result))
        /\ WF_vars(GetSnapshotTaskRuns(r))
        /\ WF_vars(\E fault \in BOOLEAN : GetFullSnapshotTaskRuns(r, fault))

\* ---------------------------------------------------------- properties
\* The request asked to wait: every collection-meta request, and a snapshot
\* request unless it carries wait=false.
Blocking(rq) ==
    \/ rq.kind \in MetaKinds
    \/ rq.kind \in SnapshotKinds /\ rq.wait # Some(FALSE)

NonBlocking(rq) == rq.kind \in SnapshotKinds /\ rq.wait = Some(FALSE)

HandlerEnded(rq) == rq.pc \in {"done", "aborted"}

\* C1: a snapshot request with wait=false, of any kind, download included, is
\* answered Accepted or with a failure produced locally, never with a payload
\* or an error that comes from the Executor task.
C1_DetachedNeverReturnsTaskResult ==
    \A r \in Requests :
        (NonBlocking(req[r]) /\ req[r].pc # "idle") =>
            /\ req[r].resp.kind \in {"Accepted", "Failure"}
            /\ req[r].resp.src = "local"

\* A download with wait=false whose task found the snapshot, answered locally.
C1_Witness ==
    \E r \in Requests :
        /\ req[r].kind = "GetSnapshot"
        /\ req[r].wait = Some(FALSE)
        /\ req[r].task.st = "finished"
        /\ req[r].task.res.kind = "Success"
        /\ req[r].resp.kind = "Failure"

\* C2: a blocking request whose handler has ended was answered Success or
\* Failure.
C2_BlockingEndsWithSuccessOrFailure ==
    \A r \in Requests :
        (Blocking(req[r]) /\ HandlerEnded(req[r])) =>
            req[r].resp.kind \in {"Success", "Failure"}

\* C3: once the timeout of a collection-meta request has elapsed with the
\* Executor call still running, the caller has got Failure(Timeout), exactly
\* once; the call is not cancelled, and it ends after the response.
C3_TimedOut(r) ==
    req[r].expired =>
        /\ req[r].pc = "done"
        /\ req[r].resp.kind = "Failure"
        /\ req[r].resp.err = "Timeout"
        /\ req[r].resp.src = "local"
        /\ req[r].nresp = 1
        /\ req[r].task.st \in {"running", "finished"}

C3_TimeoutDetaches ==
    /\ [](\A r \in Requests : C3_TimedOut(r))
    /\ \A r \in Requests : req[r].expired ~> (req[r].task.st = "finished")

\* A request answered Timeout whose Executor call has ended since.
C3_Witness ==
    \E r \in Requests :
        /\ req[r].kind \in {"CreateCollection", "DeleteCollection"}
        /\ req[r].expired
        /\ req[r].resp.err = "Timeout"
        /\ req[r].task.st = "finished"

\* C4: a collection-meta request that has been answered was submitted to the
\* Executor, once, whatever its timeout.
C4_AlwaysSubmitted ==
    \A r \in Requests :
        (req[r].kind \in CollectionMetaKinds /\ req[r].resp.kind # "none") =>
            /\ req[r].calls = 1
            /\ req[r].task.st # "none"
            /\ req[r].log[2] = "dispatch"

\* A request with timeout=0 answered Timeout, and one without a timeout
\* answered, both submitted.
C4_Witness ==
    \E r, q \in Requests :
        /\ req[r].kind = "CreateCollection"
        /\ req[r].timeout = Some(0)
        /\ req[r].resp.err = "Timeout"
        /\ req[r].calls = 1
        /\ req[q].kind \in CollectionMetaKinds
        /\ req[q].timeout = None
        /\ req[q].resp.kind # "none"
        /\ req[q].calls = 1

\* C5: a download request that has arrived has spawned its task, as the first
\* thing it did, whether it waits or not.
C5_SpawnedOnArrival ==
    \A r \in Requests :
        (req[r].kind \in {"GetSnapshot", "GetFullSnapshot"} /\ req[r].pc # "idle") =>
            /\ req[r].task.st # "none"
            /\ req[r].calls = 1
            /\ req[r].log[2] = "spawn"
            /\ req[r].log[3] \in {"await", "respond"}

\* A download with wait=false, answered, with its task started.
C5_Witness ==
    \E r \in Requests :
        /\ req[r].kind = "GetSnapshot"
        /\ req[r].wait = Some(FALSE)
        /\ req[r].pc = "done"
        /\ req[r].task.st = "running"

\* C6: two snapshot requests with wait=false of the same kind (and, for an
\* upload, persisted alike) are answered at once and alike, whatever became of
\* their tasks; the answer never carries a result of the task.
C6_SameInputs(a, b) ==
    /\ NonBlocking(a) /\ NonBlocking(b)
    /\ a.kind = b.kind
    /\ a.io = b.io
    /\ a.pc # "idle" /\ b.pc # "idle"

C6_DetachedResponseIgnoresOutcome ==
    \A r, q \in Requests :
        C6_SameInputs(req[r], req[q]) =>
            /\ req[r].pc = "done"
            /\ req[r].resp = req[q].resp
            /\ req[r].resp.src # "executor"

\* Two downloads with wait=false, one task panicked, the other found the
\* snapshot, answered alike.
C6_Witness ==
    \E r, q \in Requests :
        /\ C6_SameInputs(req[r], req[q])
        /\ req[r].kind = "GetSnapshot"
        /\ req[r].task.st = "panicked"
        /\ req[q].task.st = "finished"
        /\ req[r].resp = req[q].resp

\* C7: an upload whose file could not be persisted (persist, canonicalize or
\* the URL conversion failed) is answered with a local Failure, and recover was
\* never invoked for it.
C7_PersistFailureSkipsRecover ==
    \A r \in Requests :
        (req[r].kind = "UploadSnapshot" /\ req[r].io # "ok") =>
            /\ req[r].pc = "done"
            /\ req[r].resp.kind = "Failure"
            /\ req[r].resp.src = "local"
            /\ req[r].recovers = <<>>
            /\ req[r].task.st = "none"
            /\ req[r].calls = 0

\* Uploads that failed in each of the three ways.
C7_Witness ==
    \E r, q \in Requests :
        /\ req[r].kind = "UploadSnapshot" /\ req[r].io = "canonicalize"
        /\ req[r].resp.err = "IOFailure"
        /\ req[q].kind = "UploadSnapshot" /\ req[q].io = "url"
        /\ req[q].resp.kind = "Failure"

\* C8: a request whose handler has ended was answered exactly once, with
\* Success, Failure or Accepted.
C8_ExactlyOneResponse ==
    \A r \in Requests :
        /\ req[r].nresp <= 1
        /\ HandlerEnded(req[r]) =>
            /\ req[r].nresp = 1
            /\ req[r].resp.kind \in {"Success", "Failure", "Accepted"}

\* C9: a blocking request whose Executor call failed with NotFound, Conflict
\* or an opaque failure is answered with a Failure of that kind, its status
\* and the Executor's message; so is a blocking download of an unknown
\* collection or snapshot.
C9_ExecutorErrorPassedThrough ==
    \A r \in Requests :
        (Blocking(req[r]) /\ HandlerEnded(req[r]) /\ ~req[r].expired) =>
            /\ (req[r].task.st = "finished" /\ req[r].task.res.kind = "Failure") =>
                    /\ req[r].resp.kind = "Failure"
                    /\ req[r].resp.err = req[r].task.res.err
                    /\ req[r].resp.msg = ExecutorMessage(req[r].task.res.err)
                    /\ req[r].resp.status = StatusCode(req[r].task.res.err)
            /\ (req[r].kind = "GetSnapshot"
                    /\ (req[r].coll \notin KnownCollections \/ req[r].snap = "s2")) =>
                    /\ req[r].resp.kind = "Failure"
                    /\ req[r].resp.err = "NotFound"
                    /\ req[r].resp.status = "404"

\* C10: a snapshot creation with wait=false is answered Accepted and its task
\* is left to run; a blocking list of the same collection whose listing ran
\* after that task created the snapshot is answered with a list that has it.
C10_Created(c) ==
    /\ req[c].kind = "CreateSnapshot"
    /\ req[c].wait = Some(FALSE)
    /\ req[c].task.st = "finished"
    /\ req[c].task.res.kind = "Success"

C10_ListedAfter(c, l) ==
    /\ C10_Created(c)
    /\ req[l].kind = "ListSnapshots"
    /\ req[l].wait # Some(FALSE)
    /\ req[l].coll = req[c].coll
    /\ c \in req[l].after

C10_DetachedCreateIsListed ==
    /\ \A c \in Requests :
        (req[c].kind = "CreateSnapshot" /\ req[c].wait = Some(FALSE)) =>
            /\ req[c].resp.kind = "Accepted"
            /\ req[c].task.st \in {"running", "finished"}
    /\ \A c, l \in Requests :
        C10_ListedAfter(c, l) =>
            /\ req[l].resp.kind = "Success"
            /\ req[c].task.res.val \subseteq req[l].resp.val

\* A detached creation that finished, and a later blocking list that has the
\* new snapshot.
C10_Witness ==
    \E c, l \in Requests :
        /\ C10_ListedAfter(c, l)
        /\ req[c].resp.kind = "Accepted"
        /\ req[c].task.res.val # {}
        /\ req[c].task.res.val \subseteq req[l].resp.val


\* C11: every response, of every handler, carries the timing field: it went
\* through process_response, the download endpoints and the early return of
\* upload included.
C11_EveryResponseTimed ==
    \A r \in Requests :
        req[r].resp.kind # "none" => req[r].resp.timed

\* C12: the Option<Duration> a collection-meta or cluster handler hands on is
\* None for an absent timeout and exactly n whole seconds for timeout=n; the
\* wait flag a snapshot handler resolves is true for an absent wait and b for
\* wait=b.
C12_ResolvedPolicy ==
    \A r \in Requests :
        /\ (req[r].kind \in MetaKinds /\ req[r].timeout = None) =>
                req[r].tmo = None
        /\ (req[r].kind \in MetaKinds /\ req[r].timeout # None) =>
                req[r].tmo = Some([secs |-> req[r].timeout[1], nanos |-> 0])
        /\ (req[r].kind \in SnapshotKinds /\ req[r].wait = None) =>
                req[r].blocking = TRUE
        /\ (req[r].kind \in SnapshotKinds /\ req[r].wait # None) =>
                req[r].blocking = req[r].wait[1]

\* A request with timeout=10 handed ten seconds, and a snapshot request with
\* wait=false resolved not to wait.
C12_Witness ==
    \E r, q \in Requests :
        /\ req[r].kind \in MetaKinds
        /\ req[r].timeout = Some(10)
        /\ req[r].tmo = Some([secs |-> 10, nanos |-> 0])
        /\ req[q].kind \in SnapshotKinds
        /\ req[q].wait = Some(FALSE)
        /\ req[q].blocking = FALSE

\* C13: a submitted operation goes Received -> Dispatched -> Completed,
\* TimedOut or Detached.  Nothing is answered before the operation is
\* dispatched; a handler that has ended is in exactly one of the three
\* terminal states, which the caller never sees change again; and after
\* Detached or TimedOut the work still runs to its end.
C13_Dispatched(rq) ==
    \E i \in 1..Len(rq.log) :
        /\ rq.log[i] \in {"spawn", "dispatch"}
        /\ \A j \in 1..Len(rq.log) : rq.log[j] = "respond" => i < j

C13_Completed(rq) ==
    /\ rq.pc = "done" /\ rq.blocking /\ ~rq.expired
    /\ TaskEnded(rq)

C13_TimedOut(rq) ==
    /\ rq.pc = "done" /\ rq.expired
    /\ rq.resp.err = "Timeout"

C13_Detached(rq) ==
    /\ rq.pc = "done" /\ ~rq.blocking
    /\ rq.log = <<"received", "spawn", "respond">>

C13_Terminal(rq) == C13_Completed(rq) \/ C13_TimedOut(rq) \/ C13_Detached(rq)

C13_States ==
    \A r \in Requests :
        /\ (req[r].calls >= 1 /\ req[r].resp.kind # "none") => C13_Dispatched(req[r])
        /\ HandlerEnded(req[r]) => C13_Terminal(req[r])
        /\ ~(C13_Completed(req[r]) /\ C13_TimedOut(req[r]))
        /\ ~(C13_Completed(req[r]) /\ C13_Detached(req[r]))
        /\ ~(C13_TimedOut(req[r]) /\ C13_Detached(req[r]))

C13_TerminalIsFinal ==
    \A r \in Requests :
        C13_Terminal(req[r]) =>
            /\ req'[r].resp = req[r].resp
            /\ req'[r].nresp = req[r].nresp
            /\ C13_Completed(req'[r]) = C13_Completed(req[r])
            /\ C13_TimedOut(req'[r]) = C13_TimedOut(req[r])
            /\ C13_Detached(req'[r]) = C13_Detached(req[r])

C13_StateMachine ==
    /\ []C13_States
    /\ [][C13_TerminalIsFinal]_vars
    /\ \A r \in Requests :
        (C13_Detached(req[r]) \/ C13_TimedOut(req[r])) ~> TaskEnded(req[r])

\* C14: a request is answered with a locally made Failure(Timeout) only if it
\* carried a timeout and that timeout elapsed while its Executor call was
\* still running; a request without a timeout is never answered Timeout, and
\* a request whose call ended before its timeout elapsed is answered with the
\* outcome of the call.
C14_TimeoutOnlyWhenExpired ==
    \A r \in Requests :
        req[r].kind \in MetaKinds =>
            /\ (req[r].resp.err = "Timeout") =>
                    /\ req[r].resp.src = "local"
                    /\ req[r].timeout # None
                    /\ req[r].expired
            /\ (req[r].timeout = None) =>
                    /\ req[r].resp.err # "Timeout"
                    /\ ~req[r].expired
            /\ (req[r].pc = "done" /\ ~req[r].expired) =>
                    /\ req[r].task.st = "finished"
                    /\ req[r].resp = process_response(req[r].task.res)

\* A request without a timeout answered by the Executor, and a request with a
\* timeout whose call ended in time, answered with the Executor's error.
C14_Witness ==
    \E r, q \in Requests :
        /\ req[r].kind \in MetaKinds
        /\ req[r].timeout = None
        /\ req[r].resp.kind = "Success"
        /\ req[q].kind \in MetaKinds
        /\ req[q].timeout # None
        /\ ~req[q].expired
        /\ req[q].resp.err = "Conflict"

\* C17: a cluster request and a collection-meta request with the same
\* timeout, whose Executor calls took as long (the timeout elapsed first for
\* both or for neither) and ended alike, are answered alike; and on neither
\* path is the Executor call ever cancelled.
C17_SameRun(a, b) ==
    /\ a.kind = "ClusterReconfigure"
    /\ b.kind \in CollectionMetaKinds
    /\ a.timeout = b.timeout
    /\ a.expired = b.expired
    /\ a.task = b.task

C17_ClusterSharesTimeoutSemantics ==
    /\ \A r, q \in Requests :
        C17_SameRun(req[r], req[q]) =>
            /\ req[r].pc = req[q].pc
            /\ req[r].resp = req[q].resp
            /\ req[r].tmo = req[q].tmo
    /\ \A r \in Requests :
        (req[r].kind \in MetaKinds) =>
            /\ req[r].task.st \in {"running", "finished"}
            /\ req[r].calls = 1

\* A cluster request and a collection-meta request, both with timeout=0 and
\* both timed out, answered Timeout, whose calls have both ended since.
C17_Witness ==
    \E r, q \in Requests :
        /\ C17_SameRun(req[r], req[q])
        /\ req[r].timeout = Some(0)
        /\ req[r].expired
        /\ req[r].task.st = "finished"
        /\ req[r].resp.err = "Timeout"
        /\ req[q].resp.err = "Timeout"

\* C15: a download request with wait=false, per-collection or full-node, is
\* answered without awaiting its task, with the I/O error of opening
\* "not_found": a 404 made locally, never Accepted and never the file, the
\* same whether or not the snapshot exists and whatever the task found.
C15_NotFoundResponse ==
    actix_respond(Failure("IOFailure", "No such file or directory (os error 2)", "local"))

C15_DetachedDownloadOpensNotFound ==
    \A r \in Requests :
        (req[r].kind \in {"GetSnapshot", "GetFullSnapshot"}
            /\ req[r].wait = Some(FALSE) /\ req[r].pc # "idle") =>
            /\ req[r].log = <<"received", "spawn", "respond">>
            /\ req[r].resp = C15_NotFoundResponse
            /\ req[r].resp.status = "404"

\* Two downloads with wait=false answered with the not-found error: one of a
\* full snapshot that exists, whose task found its path, and one of a snapshot
\* that does not exist.
C15_Witness ==
    \E r, q \in Requests :
        /\ req[r].kind = "GetFullSnapshot"
        /\ req[r].wait = Some(FALSE)
        /\ req[r].snap \in fullSnapshots
        /\ req[r].task.st = "finished"
        /\ req[r].task.res.kind = "Success"
        /\ req[r].resp = C15_NotFoundResponse
        /\ req[q].kind = "GetSnapshot"
        /\ req[q].wait = Some(FALSE)
        /\ req[q].snap = "s2"
        /\ req[q].resp = C15_NotFoundResponse

\* The path an upload of request rq is persisted at: below the directory of
\* the collection, under the file name of the request or, without one, under
\* one of the identifiers generated so far.
PersistPaths(rq) ==
    {canonicalize(Path_join(<<"snapshots", rq.coll>>, name)) :
        name \in IF rq.file # None THEN {rq.file[1]}
                 ELSE {<<UuidString(k)>> : k \in 1..uuids}}

\* C16: an upload whose file was persisted has invoked recover exactly once,
\* with the location of the persisted file, the priority and the wait value
\* of the request; once answered, its response is the outcome of that call:
\* the result of the recover task for a blocking request, Accepted otherwise.
C16_RecoverInvokedOnce ==
    \A r \in Requests :
        (req[r].kind = "UploadSnapshot" /\ req[r].io = "ok") =>
            /\ Len(req[r].recovers) = 1
            /\ req[r].calls = 1
            /\ req[r].recovers[1].priority = req[r].prio
            /\ req[r].recovers[1].wait = UnwrapOr(req[r].wait, TRUE)
            /\ Cardinality(req[r].recovers[1].location) = 1
            /\ \A u \in req[r].recovers[1].location :
                /\ Head(u) = "file:"
                /\ Tail(u) \in files
                /\ Tail(u) \in PersistPaths(req[r])
            /\ (req[r].pc = "done" /\ req[r].wait = None) =>
                    /\ req[r].task.st = "finished"
                    /\ req[r].resp = process_response(req[r].task.res)
            /\ (req[r].pc = "done" /\ req[r].wait = Some(FALSE)) =>
                    req[r].resp = process_response(Accepted)
            /\ req[r].pc \in {"awaiting", "done"}

\* A blocking upload with a priority, persisted and recovered: the recover
\* call got the priority, and its success is the response.
C16_Witness ==
    \E r \in Requests :
        /\ req[r].kind = "UploadSnapshot"
        /\ req[r].io = "ok"
        /\ req[r].prio = Some("replica")
        /\ req[r].wait = None
        /\ req[r].recovers[1].priority = Some("replica")
        /\ req[r].task.st = "finished"
        /\ req[r].resp.kind = "Success"
        /\ req[r].resp.src = "executor"

\* The path the upload of request r was persisted at (the path its recover
\* call was handed).
UploadPath(rq) == Tail(CHOOSE u \in rq.recovers[1].location : TRUE)

C18_Persisted(rq) == rq.kind = "UploadSnapshot" /\ rq.io = "ok"

\* C18: two uploads without a file name are persisted at distinct paths, and
\* so are two uploads to different collections; the file is named as the
\* caller asked, or by an identifier generated for it.
C18_UploadsDoNotCollide ==
    /\ \A r, q \in Requests :
        (r # q /\ C18_Persisted(req[r]) /\ C18_Persisted(req[q])) =>
            /\ (req[r].file = None /\ req[q].file = None) =>
                    UploadPath(req[r]) # UploadPath(req[q])
            /\ (req[r].coll # req[q].coll) =>
                    UploadPath(req[r]) # UploadPath(req[q])
    /\ \A r \in Requests :
        C18_Persisted(req[r]) =>
            /\ UploadPath(req[r]) \in files
            /\ UploadPath(req[r]) \in PersistPaths(req[r])

\* C19: an upload with wait=false that has been answered Accepted has its file
\* persisted at its final path, with nothing but the recover task left to
\* run; so has every upload, waiting or not, from the moment its recover call
\* is made.
C19_PersistedBeforeResponse ==
    \A r \in Requests :
        req[r].kind = "UploadSnapshot" =>
            /\ (req[r].wait = Some(FALSE) /\ req[r].pc = "done"
                    /\ req[r].resp.kind = "Accepted") =>
                    /\ req[r].io = "ok"
                    /\ UploadPath(req[r]) \in files
                    /\ req[r].task.st \in {"running", "finished"}
            /\ (req[r].wait = Some(FALSE) /\ req[r].pc # "idle") =>
                    req[r].pc = "done"
            /\ (req[r].calls >= 1) =>
                    /\ req[r].io = "ok"
                    /\ UploadPath(req[r]) \in files

\* An upload with wait=false, answered Accepted, its file persisted and its
\* recover task still running.
C19_Witness ==
    \E r \in Requests :
        /\ req[r].kind = "UploadSnapshot"
        /\ req[r].wait = Some(FALSE)
        /\ req[r].resp.kind = "Accepted"
        /\ req[r].task.st = "running"
        /\ UploadPath(req[r]) \in files

\* The Executor calls started so far by the requests 1..n.
RECURSIVE CallsStarted(_)
CallsStarted(n) == IF n = 0 THEN 0 ELSE req[n].calls + CallsStarted(n - 1)

RequestsReceived == Cardinality({r \in Requests : req[r].pc # "idle"})

\* The number of dispatch and spawn events of a request.
Dispatches(rq) ==
    Cardinality({i \in 1..Len(rq.log) : rq.log[i] \in {"dispatch", "spawn"}})

\* C20: a request starts at most one Executor call, also after a failure, a
\* timeout or a detach, and an idle slot none: the calls started never exceed
\* the requests received.
C20_AtMostOneCallPerRequest ==
    /\ \A r \in Requests :
        /\ req[r].calls <= 1
        /\ Dispatches(req[r]) = req[r].calls
        /\ Len(req[r].recovers) <= 1
        /\ req[r].pc = "idle" => req[r].calls = 0
    /\ CallsStarted(NReq) <= RequestsReceived

\* A request that timed out and whose call has failed since, next to a
\* request that did not wait and whose task has failed: one call each.
C20_Witness ==
    \E r, q \in Requests :
        /\ req[r].expired
        /\ req[r].resp.err = "Timeout"
        /\ req[r].task.st = "finished"
        /\ req[r].task.res.kind = "Failure"
        /\ req[r].calls = 1
        /\ NonBlocking(req[q])
        /\ req[q].task.st = "finished"
        /\ req[q].task.res.kind = "Failure"
        /\ req[q].calls = 1
        /\ CallsStarted(NReq) = 2


=============================================================================
